---- MODULE Spec2Model ----
(***************************************************************************)
(* A model of peerdns/go-verkle, src/config.go: the per-width TreeConfig   *)
(* cache (GetTreeConfig), the key path utilities (equalPaths, offset2key), *)
(* the polynomial algebra (innerQuotients, evalPoly) and the node decoder  *)
(* (ParseNode and its four decode paths).                                  *)
(***************************************************************************)
EXTENDS Integers, Sequences, FiniteSets, TLC

VARIABLES
  configs,      \* var configs map[int]*TreeConfig: width -> instance or NoConfig
  configMtx,    \* var configMtx sync.Mutex: the goroutine holding it, or NoThread
  pc,           \* each goroutine's position inside GetTreeConfig
  arg,          \* each goroutine's width argument
  tmpCfg,       \* the TreeConfig a goroutine built at line 95, before the insert
  nextId,       \* identity of the next TreeConfig that initTreeConfig allocates
  built,        \* history: how many TreeConfig were constructed for each width
  returned,     \* history: <<width, outcome>> of every completed call
  hits,         \* history: how many calls were served from the cache, per width
  calls,        \* history: number of GetTreeConfig calls started
  tcWidth,      \* tc.width of the TreeConfig the key utilities are called on
  key1, key2,   \* the []byte keys handed to equalPaths / offset2key
  offset,       \* the bit offset handed to offset2key
  keyOp,        \* which key utility has run: "none", "equalPaths", "offset2key"
  keyRes,       \* its result
  serializedNode, \* the []byte handed to ParseNode (its len is Len(serializedNode))
  capacity,     \* cap(serializedNode)
  depth,        \* the depth argument
  badPoints,    \* the commitment fields SetBytesUncompressed rejects
  parseOp,      \* which decoder entry point has run: "none", "ParseNode", "CreateInternalNode"
  parseRes,     \* what it returned
  poly,         \* the evaluation vector handed to evalPoly / innerQuotients
  emptyChildren, \* evalPoly's emptyChildren argument
  index,        \* innerQuotients' index argument
  algOp,        \* which operation has run: "none", "evalPoly", "innerQuotients"
  algRes        \* what it returned

cacheVars == <<configs, configMtx, pc, arg, tmpCfg, nextId, built, returned, hits, calls>>

keyVars == <<tcWidth, key1, key2, offset, keyOp, keyRes>>

parseVars == <<serializedNode, capacity, depth, badPoints, parseOp, parseRes>>

algVars == <<poly, emptyChildren, index, algOp, algRes>>

vars == <<cacheVars, keyVars, parseVars, algVars>>

(* what the operations of one component leave alone *)
nonCacheVars == <<keyVars, parseVars, algVars>>
nonKeyVars == <<cacheVars, parseVars, algVars>>
nonParseVars == <<cacheVars, keyVars, algVars>>
nonAlgVars == <<cacheVars, keyVars, parseVars>>

---------------------------------------------------------------------------
(* Bounds of the model.                                                    *)
NumThreads == 2
MaxCalls == 3

Threads == 1..NumThreads
NoThread == 0
NoConfig == [id |-> 0, width |-> 0, nodeWidth |-> 0]
Panicked == [kind |-> "panic", id |-> 0]
Returned(id) == [kind |-> "ok", id |-> id]

(* Widths handed to GetTreeConfig: the two supported ones, an unsupported  *)
(* positive one and a negative one (1 << width panics at run time).        *)
Widths == {-1, 4, 8, 10}
SupportedWidths == {8, 10}

---------------------------------------------------------------------------
(* The configuration cache.                                                *)

(* init(): configs = make(map[int]*TreeConfig) *)
IdleCache ==
  /\ configs = [w \in Widths |-> NoConfig]
  /\ configMtx = NoThread
  /\ pc = [t \in Threads |-> "idle"]
  /\ arg = [t \in Threads |-> 0]
  /\ tmpCfg = [t \in Threads |-> NoConfig]
  /\ nextId = 1
  /\ built = [w \in Widths |-> 0]
  /\ returned = {}
  /\ hits = [w \in Widths |-> 0]
  /\ calls = 0

InitCache == IdleCache

(* lines 95, 100-103: the TreeConfig allocated for the cache, by its     *)
(* identity and the fields that depend on width alone                      *)
cachedTreeConfig(width, id) ==
  [id |-> id, width |-> width, nodeWidth |-> 2^width]

(* configMtx.Lock() blocks until the mutex is free *)
MtxFreeAlways(m) == TRUE
MtxFree(m) == m = NoThread

(* defer configMtx.Unlock() also runs while a panic unwinds the frame *)
PanicUnwindNoDefer(t) == t
PanicUnwind(t) == NoThread

(* the cache lookup of line 66 *)
CacheHitNever(w) == FALSE
CacheHit(w) == configs[w] # NoConfig

(* a caller starts GetTreeConfig(w) *)
Call(t, w) ==
  /\ pc[t] = "idle"
  /\ calls < MaxCalls
  /\ calls' = calls + 1
  /\ arg' = [arg EXCEPT ![t] = w]
  /\ pc' = [pc EXCEPT ![t] = "lock"]
  /\ UNCHANGED <<configs, configMtx, tmpCfg, nextId, built, returned, hits, nonCacheVars>>

(* line 63: configMtx.Lock() *)
Lock(t) ==
  /\ pc[t] = "lock"
  /\ MtxFree(configMtx)
  /\ configMtx' = t
  /\ pc' = [pc EXCEPT ![t] = "lookup"]
  /\ UNCHANGED <<configs, arg, tmpCfg, nextId, built, returned, calls, hits, nonCacheVars>>

(* lines 66-68: the cached instance is returned and the mutex released *)
LookupHit(t) ==
  /\ pc[t] = "lookup"
  /\ CacheHit(arg[t])
  /\ returned' = returned \cup {<<arg[t], Returned(configs[arg[t]].id)>>}
  /\ hits' = [hits EXCEPT ![arg[t]] = @ + 1]
  /\ configMtx' = NoThread
  /\ pc' = [pc EXCEPT ![t] = "idle"]
  /\ UNCHANGED <<configs, arg, tmpCfg, nextId, built, calls, nonCacheVars>>

(* line 66, no entry: fall through to the construction *)
LookupMiss(t) ==
  /\ pc[t] = "lookup"
  /\ ~CacheHit(arg[t])
  /\ pc' = [pc EXCEPT ![t] = "build"]
  /\ UNCHANGED <<configs, configMtx, arg, tmpCfg, nextId, built, returned, calls, hits, nonCacheVars>>

(* line 78: 1 << width panics for a negative shift count;                  *)
(* lines 90-93: FFTG1 returned an error. The deferred Unlock runs.         *)
BuildPanic(t) ==
  /\ pc[t] = "build"
  /\ \E fftErr \in BOOLEAN : arg[t] < 0 \/ fftErr
  /\ returned' = returned \cup {<<arg[t], Panicked>>}
  /\ configMtx' = PanicUnwind(t)
  /\ pc' = [pc EXCEPT ![t] = "idle"]
  /\ UNCHANGED <<configs, arg, tmpCfg, nextId, built, calls, hits, nonCacheVars>>

(* lines 72-95: the SRS, the FFT and initTreeConfig succeed *)
Build(t) ==
  /\ pc[t] = "build"
  /\ arg[t] >= 0
  /\ tmpCfg' = [tmpCfg EXCEPT ![t] = cachedTreeConfig(arg[t], nextId)]
  /\ nextId' = nextId + 1
  /\ built' = [built EXCEPT ![arg[t]] = @ + 1]
  /\ pc' = [pc EXCEPT ![t] = "insert"]
  /\ UNCHANGED <<configs, configMtx, arg, returned, calls, hits, nonCacheVars>>

(* lines 95-96: configs[width] = ...; return configs[width]; Unlock *)
Insert(t) ==
  /\ pc[t] = "insert"
  /\ configs' = [configs EXCEPT ![arg[t]] = tmpCfg[t]]
  /\ returned' = returned \cup {<<arg[t], Returned(tmpCfg[t].id)>>}
  /\ tmpCfg' = [tmpCfg EXCEPT ![t] = NoConfig]
  /\ configMtx' = NoThread
  /\ pc' = [pc EXCEPT ![t] = "idle"]
  /\ UNCHANGED <<arg, nextId, built, calls, hits, nonCacheVars>>

GetTreeConfig(t) ==
  \/ Lock(t)
  \/ LookupHit(t)
  \/ LookupMiss(t)
  \/ BuildPanic(t)
  \/ Build(t)
  \/ Insert(t)

NextCache ==
  \E t \in Threads :
    \/ \E w \in Widths : Call(t, w)
    \/ GetTreeConfig(t)

---------------------------------------------------------------------------
(* Bytes and the bit operators of Go on them.                              *)

RECURSIVE BitAnd(_, _)
BitAnd(a, b) ==
  IF a = 0 \/ b = 0 THEN 0
  ELSE (a % 2) * (b % 2) + 2 * BitAnd(a \div 2, b \div 2)

RECURSIVE BitOr(_, _)
BitOr(a, b) ==
  IF a = 0 THEN b
  ELSE IF b = 0 THEN a
  ELSE (IF a % 2 = 1 \/ b % 2 = 1 THEN 1 ELSE 0) + 2 * BitOr(a \div 2, b \div 2)

RECURSIVE BitXor(_, _)
BitXor(a, b) ==
  IF a = 0 THEN b
  ELSE IF b = 0 THEN a
  ELSE ((a + b) % 2) + 2 * BitXor(a \div 2, b \div 2)

(* x >> n and x << n on a byte (the result is truncated to 8 bits) *)
ByteShr(x, n) == x \div (2^n)
ByteShl(x, n) == (x * (2^n)) % 256

(* TLC computes an operator's argument when it is first read, so a loop   *)
(* that only hands its accumulator on would pile up the whole computation; *)
(* a loop below reads Computed(x) to have x computed before it goes on.    *)
Computed(x) == x = x

(* Go's 0-based index into a slice *)
At(s, i) == s[i + 1]

(* s[:n] *)
Prefix(s, n) == SubSeq(s, 1, n)

(* uint(x) - 1 and the like wrap around modulo 2^64. TLC's integers are    *)
(* 32 bits wide, so the wrap is taken modulo 2^UintResidueBits: every use  *)
(* of a wrapped value below reduces it modulo 8, and 8 divides both 2^64   *)
(* and 2^UintResidueBits, so the two agree.                                *)
UintResidueBits == 16
WrapUint(x) == x % (2^UintResidueBits)

---------------------------------------------------------------------------
(* Key path utilities.                                                     *)

KeyResNone == [kind |-> "none", b |-> FALSE, n |-> 0]
KeyResBool(b) == [kind |-> "bool", b |-> b, n |-> 0]
KeyResUint(n) == [kind |-> "uint", b |-> FALSE, n |-> n]
KeyResPanic == [kind |-> "panic", b |-> FALSE, n |-> 0]

(* the mask of line 209 *)
lastByteMask == 160

(* func (tc *TreeConfig) equalPaths(key1, key2 []byte) bool *)
equalPaths(width, k1, k2) ==
  IF Len(k1) # Len(k2) THEN KeyResBool(FALSE)
  ELSE IF width = 8 THEN KeyResBool(Prefix(k1, 31) = Prefix(k2, 31))
  ELSE IF width = 10 THEN
    KeyResBool(Prefix(k1, 31) = Prefix(k2, 31)
               /\ BitAnd(At(k1, 31), lastByteMask) = BitAnd(At(k2, 31), lastByteMask))
  ELSE KeyResPanic

(* the shift of line 241: (uint(nBitsInSecondByte)-1)%8 + 1; the signed    *)
(* variant is Go's int arithmetic, where (-1) % 8 = -1                     *)
GoRem(a, b) == IF a >= 0 THEN a % b ELSE 0 - ((0 - a) % b)
secondByteShiftSigned(nBitsInSecondByte) ==
  GoRem(nBitsInSecondByte - 1, 8) + 1
secondByteShift(nBitsInSecondByte) ==
  (WrapUint(nBitsInSecondByte - 1) % 8) + 1

(* func offset2KeyTenBits(key []byte, offset int) uint *)
offset2KeyTenBits(key, off) ==
  LET nFirstByte == off \div 8
      nBitsInSecondByte == (off + 10) % 8
      firstBitShift == 8 - (off % 8)
      lastBitShift == (8 - nBitsInSecondByte) % 8
      leftMask == ByteShl(ByteShr(At(key, nFirstByte), firstBitShift), firstBitShift)
      ret == BitXor(At(key, nFirstByte), leftMask) * 2^secondByteShift(nBitsInSecondByte)
  IN  IF nFirstByte + 1 < Len(key)
        THEN BitOr(ret, ByteShr(At(key, nFirstByte + 1), lastBitShift))
        ELSE ret

(* func (tc *TreeConfig) offset2key(key []byte, offset int) uint *)
offset2key(width, key, off) ==
  IF width = 10 THEN KeyResUint(offset2KeyTenBits(key, off))
  ELSE IF width = 8 THEN KeyResUint(At(key, off \div 8))
  ELSE KeyResPanic

(* The keys the utilities are run on: 32 bytes, a filler pattern with two  *)
(* adjacent bytes replaced by sample bytes.                                *)
KeyLen == 32
ByteSamples == {0, 255, 210, 96, 165}
FlipMasks == {0, 128, 64, 32, 16, 1, 192, 255}
FlipAt == {0, 30, 31}
TcWidths == {4, 8, 10}

Fill(kind, i) == IF kind = 0 THEN 0 ELSE (i * 37 + 11) % 256

MkKey(kind, p, a, b) ==
  [i \in 1..KeyLen |->
     IF i - 1 = p THEN a ELSE IF i - 1 = p + 1 THEN b ELSE Fill(kind, i - 1)]

Keys == {MkKey(kind, p, a, b) :
           kind \in {0, 1}, p \in 0..(KeyLen - 2), a \in ByteSamples, b \in ByteSamples}

FlipKey(k, q, m) == [k EXCEPT ![q + 1] = BitXor(@, m)]

(* the level offsets of a key at a width: 0, width, 2*width, ... *)
LevelOffsets(width) == {l * width : l \in 0..((KeyLen * 8 - 1) \div width)}

IdleKeys ==
  /\ tcWidth = 0
  /\ key1 = <<>>
  /\ key2 = <<>>
  /\ offset = 0
  /\ keyOp = "none"
  /\ keyRes = KeyResNone

InitKeys ==
  /\ tcWidth \in TcWidths
  /\ key1 \in Keys
  /\ key2 = key1
  /\ offset = 0
  /\ keyOp = "none"
  /\ keyRes = KeyResNone

EqualPathsCall ==
  /\ keyOp = "none"
  /\ \E q \in FlipAt, m \in FlipMasks :
       /\ key2' = FlipKey(key1, q, m)
       /\ keyRes' = equalPaths(tcWidth, key1, FlipKey(key1, q, m))
  /\ keyOp' = "equalPaths"
  /\ UNCHANGED <<tcWidth, key1, offset, nonKeyVars>>

Offset2KeyCall ==
  /\ keyOp = "none"
  /\ \E off \in LevelOffsets(tcWidth) :
       /\ offset' = off
       /\ keyRes' = offset2key(tcWidth, key1, off)
  /\ keyOp' = "offset2key"
  /\ UNCHANGED <<tcWidth, key1, key2, nonKeyVars>>

NextKeys == EqualPathsCall \/ Offset2KeyCall

---------------------------------------------------------------------------
(* The node decoder.                                                       *)

(* Sizes and tags that the decoder takes from the rest of the package and  *)
(* from the curve library. The tags are four distinct bytes, which the     *)
(* decoder only compares; EmptyCodeHash stands for the package's 32-byte   *)
(* constant.                                                               *)
NodeWidth == 256
StemSize == 31
LeafValueSize == 32
UncompressedSize == 64
internalType == 1
leafType == 2
eoAccountType == 3
singleSlotType == 4
EmptyCodeHash == [i \in 1..LeafValueSize |-> 197]

(* lines 287, 290-313 *)
maskLsbFirst == <<1, 2, 4, 8, 16, 32, 64, 128>>
mask == <<128, 64, 32, 16, 8, 4, 2, 1>>
nodeTypeSize == 1
bitlistSize == NodeWidth \div 8
nodeTypeOffset == 0
internalBitlistOffset == nodeTypeOffset + nodeTypeSize
internalCommitmentOffset == internalBitlistOffset + bitlistSize
leafStemOffset == nodeTypeOffset + nodeTypeSize
leafBitlistOffset == leafStemOffset + StemSize
leafCommitmentOffset == leafBitlistOffset + bitlistSize
leafC1CommitmentOffset == leafCommitmentOffset + UncompressedSize
leafC2CommitmentOffset == leafC1CommitmentOffset + UncompressedSize
leafChildrenOffset == leafC2CommitmentOffset + UncompressedSize
leafBasicDataSize == 32
leafSlotSize == 32
leafValueIndexSize == 1
singleSlotLeafSize ==
  nodeTypeSize + StemSize + 2 * UncompressedSize + leafValueIndexSize + leafSlotSize
eoaLeafSize == nodeTypeSize + StemSize + 2 * UncompressedSize + leafBasicDataSize

(* A byte read from the backing array past len(s): not part of the input. *)
Beyond == 255 + 1

(* s[lo:hi] is legal up to cap(s); s[i] is legal up to len(s) *)
SliceOk(cap, lo, hi) == lo <= hi /\ hi <= cap
IndexOk(s, i) == i < Len(s)
Slice(s, lo, hi) ==
  [k \in 1..(hi - lo) |-> IF lo + k <= Len(s) THEN s[lo + k] ELSE Beyond]

(* func bit(bitlist []byte, nr int) bool *)
bit(bitlist, nr) ==
  IF Len(bitlist) * 8 <= nr THEN FALSE
  ELSE BitAnd(At(bitlist, nr \div 8), At(mask, nr % 8)) # 0

(* Points and nodes. A point keeps the bytes it was set from. *)
NoPoint == [set |-> FALSE, identity |-> FALSE, bytes |-> <<>>]
Identity == [set |-> TRUE, identity |-> TRUE, bytes |-> <<>>]
PointOf(bytes) == [set |-> TRUE, identity |-> FALSE, bytes |-> bytes]

NilValues == [i \in 1..NodeWidth |-> <<>>]
NoNode ==
  [type |-> "nil", depth |-> 0, stem |-> <<>>, children |-> <<>>, values |-> <<>>,
   commitment |-> NoPoint, c1 |-> NoPoint, c2 |-> NoPoint]

ResNone == [kind |-> "none", err |-> "", index |-> 0, overread |-> FALSE, node |-> NoNode]
ResNode(n, over) == [kind |-> "node", err |-> "", index |-> 0, overread |-> over, node |-> n]
ResErr(msg, over) == [kind |-> "error", err |-> msg, index |-> 0, overread |-> over, node |-> NoNode]
ResErrAt(msg, i) == [kind |-> "error", err |-> msg, index |-> i, overread |-> FALSE, node |-> NoNode]
ResPanic == [kind |-> "panic", err |-> "", index |-> 0, overread |-> FALSE, node |-> NoNode]

ErrInvalidNodeEncoding == "invalid node encoding"
errSerializedPayloadTooShort == "verkle payload is too short"

(* SetBytesUncompressed(bytes, true) of the curve library: its verdict on  *)
(* each commitment field is an input of the model                         *)
SetBytesFails(bad, field) == field \in bad

(* line 403: offset+LeafValueSize > len(serialized) *)
ValueTruncatedOffByOne(off, s) == off + LeafValueSize > Len(s) + 1
ValueTruncated(off, s) == off + LeafValueSize > Len(s)

(* lines 402-408: the body of the loop for slot i; st carries offset,     *)
(* ln.values and, once a value does not fit, the index the error names     *)
leafValueStep(s, bitlist, i, st) ==
  IF ~st.ok \/ ~bit(bitlist, i) THEN st
  ELSE IF ValueTruncated(st.off, s) THEN [st EXCEPT !.ok = FALSE, !.index = i]
  ELSE [st EXCEPT !.off = st.off + LeafValueSize,
                  !.values = [st.values EXCEPT ![i + 1] =
                                Slice(s, st.off, st.off + LeafValueSize)]]

(* lines 400-409: for i := 0; i < NodeWidth; i++, run as the slots of one  *)
(* bitlist byte after the other                                            *)
RECURSIVE leafValuesRun(_, _, _, _, _)
leafValuesRun(s, bitlist, i, stop, st) ==
  IF i >= stop THEN st
  ELSE leafValuesRun(s, bitlist, i + 1, stop, leafValueStep(s, bitlist, i, st))

RECURSIVE leafValues(_, _, _, _)
leafValues(s, bitlist, i, st) ==
  IF i >= NodeWidth \/ ~st.ok THEN st
  ELSE LET stop == IF i + 8 < NodeWidth THEN i + 8 ELSE NodeWidth
           next == leafValuesRun(s, bitlist, i, stop, st)
       IN  IF Computed(next) THEN leafValues(s, bitlist, stop, next) ELSE next

(* func parseLeafNode(serialized []byte, depth byte) (VerkleNode, error) *)
parseLeafNode(s, d, bad) ==
  LET stemEnd == leafStemOffset + StemSize
      bitlistEnd == leafBitlistOffset + bitlistSize
      commitmentEnd == leafC2CommitmentOffset + UncompressedSize
      bitlist == Slice(s, leafBitlistOffset, bitlistEnd)
      loop == leafValues(s, bitlist, 0,
                         [ok |-> TRUE, index |-> 0, off |-> leafChildrenOffset,
                          values |-> NilValues])
  IN  IF Len(s) < stemEnd THEN ResErr("serialized data too short to contain stem", FALSE)
      ELSE IF Len(s) < bitlistEnd
        THEN ResErr("serialized data too short to contain bitlist", FALSE)
      ELSE IF Len(s) < commitmentEnd
        THEN ResErr("serialized data too short to contain commitments", FALSE)
      ELSE IF SetBytesFails(bad, "commitment") THEN ResErr("setting commitment", FALSE)
      ELSE IF SetBytesFails(bad, "c1") THEN ResErr("setting c1 commitment", FALSE)
      ELSE IF SetBytesFails(bad, "c2") THEN ResErr("setting c2 commitment", FALSE)
      ELSE IF ~loop.ok
        THEN ResErrAt("not enough data to read value at index", loop.index)
      ELSE ResNode(
        [type |-> "leaf", depth |-> d,
         stem |-> Slice(s, leafStemOffset, stemEnd),
         children |-> <<>>,
         values |-> loop.values,
         commitment |-> PointOf(Slice(s, leafCommitmentOffset,
                                      leafCommitmentOffset + UncompressedSize)),
         c1 |-> PointOf(Slice(s, leafC1CommitmentOffset,
                              leafC1CommitmentOffset + UncompressedSize)),
         c2 |-> PointOf(Slice(s, leafC2CommitmentOffset,
                              leafC2CommitmentOffset + UncompressedSize))],
        FALSE)

(* func parseEoAccountNode(serialized []byte, depth byte) (VerkleNode, error) *)
parseEoAccountNode(s, cap, d, bad) ==
  LET off == leafStemOffset + StemSize + 2 * UncompressedSize
      over == off + leafBasicDataSize > Len(s)
  IN  IF ~SliceOk(cap, off, off + leafBasicDataSize) THEN ResPanic
      ELSE IF SetBytesFails(bad, "c1") THEN ResErr("error setting leaf C1 commitment", over)
      ELSE IF SetBytesFails(bad, "commitment")
        THEN ResErr("error setting leaf root commitment", over)
      ELSE ResNode(
        [type |-> "leaf", depth |-> d,
         stem |-> Slice(s, leafStemOffset, leafStemOffset + StemSize),
         children |-> <<>>,
         values |-> [NilValues EXCEPT ![1] = Slice(s, off, off + leafBasicDataSize),
                                      ![2] = EmptyCodeHash],
         commitment |-> PointOf(Slice(s, leafStemOffset + StemSize + UncompressedSize,
                                      leafStemOffset + StemSize + UncompressedSize * 2)),
         c1 |-> PointOf(Slice(s, leafStemOffset + StemSize,
                              leafStemOffset + StemSize + UncompressedSize)),
         c2 |-> Identity],
        over)

(* func parseSingleSlotNode(serialized []byte, depth byte) (VerkleNode, error) *)
parseSingleSlotNode(s, cap, d, bad) ==
  LET off0 == leafStemOffset
      off1 == off0 + StemSize
      off2 == off1 + UncompressedSize
      off3 == off2 + UncompressedSize
      off4 == off3 + leafValueIndexSize
      idx == At(s, off3)
      over == off4 + leafSlotSize > Len(s)
      cnComm == PointOf(Slice(s, off1, off2))
      values == [NilValues EXCEPT ![idx + 1] = Slice(s, off4, off4 + leafSlotSize)]
  IN  IF ~SliceOk(cap, off0, off1) THEN ResPanic
      ELSE IF ~SliceOk(cap, off1, off2) THEN ResPanic
      ELSE IF ~SliceOk(cap, off2, off3) THEN ResPanic
      ELSE IF ~IndexOk(s, off3) THEN ResPanic
      ELSE IF ~SliceOk(cap, off4, off4 + leafSlotSize) THEN ResPanic
      ELSE IF idx < 128 /\ SetBytesFails(bad, "c1")
        THEN ResErr("error setting leaf C1 commitment", over)
      ELSE IF idx >= 128 /\ SetBytesFails(bad, "c2")
        THEN ResErr("error setting leaf C2 commitment", over)
      ELSE IF SetBytesFails(bad, "commitment")
        THEN ResErr("error setting leaf root commitment", over)
      ELSE ResNode(
        [type |-> "leaf", depth |-> d,
         stem |-> Slice(s, off0, off1),
         children |-> <<>>,
         values |-> values,
         commitment |-> PointOf(Slice(s, off2, off3)),
         c1 |-> IF idx < 128 THEN cnComm ELSE Identity,
         c2 |-> IF idx < 128 THEN Identity ELSE cnComm],
        over)

(* lines 477-487: one child per bit of every bitlist byte *)
internalChildren(bitlist) ==
  [k \in 1..NodeWidth |->
     IF (k - 1) \div 8 >= Len(bitlist) THEN "nil"
     ELSE IF BitAnd(At(bitlist, (k - 1) \div 8), At(mask, (k - 1) % 8)) # 0 THEN "HashedNode"
     ELSE "Empty"]

(* func CreateInternalNode(bitlist []byte, raw []byte, depth byte): an InternalNode or an error *)
CreateInternalNode(bitlist, raw, d, bad) ==
  IF Len(bitlist) # bitlistSize THEN ResErr(ErrInvalidNodeEncoding, FALSE)
  ELSE IF Len(raw) # UncompressedSize THEN ResErr(ErrInvalidNodeEncoding, FALSE)
  ELSE IF SetBytesFails(bad, "commitment") THEN ResErr("setting commitment", FALSE)
  ELSE ResNode(
    [type |-> "internal", depth |-> d, stem |-> <<>>,
     children |-> internalChildren(bitlist),
     values |-> <<>>,
     commitment |-> PointOf(raw), c1 |-> NoPoint, c2 |-> NoPoint],
    FALSE)

(* func ParseNode(serializedNode []byte, depth byte) (VerkleNode, error) *)
ParseNode(s, cap, d, bad) ==
  IF Len(s) < nodeTypeSize + UncompressedSize THEN ResErr(errSerializedPayloadTooShort, FALSE)
  ELSE LET nodeType == At(s, 0)
       IN  IF nodeType = leafType THEN parseLeafNode(s, d, bad)
           ELSE IF nodeType = internalType THEN
             CreateInternalNode(Slice(s, internalBitlistOffset, internalCommitmentOffset),
                                Slice(s, internalCommitmentOffset, Len(s)), d, bad)
           ELSE IF nodeType = eoAccountType THEN parseEoAccountNode(s, cap, d, bad)
           ELSE IF nodeType = singleSlotType THEN parseSingleSlotNode(s, cap, d, bad)
           ELSE ResErr(ErrInvalidNodeEncoding, FALSE)

(* The blobs the decoder is run on: a tag, a length around each size the   *)
(* decoder compares with, a bitlist with some of BitCandidates set, and a  *)
(* position-dependent filler for every other byte.                         *)
MaxValues == 2
CapSlack == 256
BitCandidates == {0, 7, 8, 255}
Tags == {0, internalType, leafType, eoAccountType, singleSlotType}
Depths == {0, 3}
PointFields == {"commitment", "c1", "c2"}

Cuts ==
  {0, nodeTypeSize + UncompressedSize, internalCommitmentOffset + UncompressedSize,
   leafCommitmentOffset, leafC1CommitmentOffset, leafC2CommitmentOffset,
   leafStemOffset + StemSize + 2 * UncompressedSize, eoaLeafSize, singleSlotLeafSize}
    \cup {leafChildrenOffset + v * LeafValueSize : v \in 0..MaxValues}
Lengths == {c + d : c \in Cuts, d \in {0, 1}} \cup {c - 1 : c \in Cuts \ {0}}

BlobFill(kind, i) ==
  IF kind = 0 THEN (i * 37 + 11) % 256 ELSE 255 - ((i * 37 + 11) % 256)

(* byte j of the bitlist that has exactly the bits of the set bits set,    *)
(* most significant bit first                                              *)
BitlistByte(bits, j) ==
  LET RECURSIVE Sum(_)
      Sum(b) == IF b = 8 THEN 0
                ELSE (IF (8 * j + b) \in bits THEN 2^(7 - b) ELSE 0) + Sum(b + 1)
  IN  Sum(0)

BitlistOffsetOf(tag) ==
  IF tag = internalType THEN internalBitlistOffset ELSE leafBitlistOffset

MkBlob(tag, len, bits, kind) ==
  [i \in 1..len |->
     IF i = 1 THEN tag
     ELSE IF tag \in {internalType, leafType}
             /\ i - 1 >= BitlistOffsetOf(tag)
             /\ i - 1 < BitlistOffsetOf(tag) + bitlistSize
       THEN BitlistByte(bits, i - 1 - BitlistOffsetOf(tag))
     ELSE BlobFill(kind, i - 1)]

Blobs ==
  {MkBlob(tag, len, bits, kind) :
     tag \in {internalType, leafType}, len \in Lengths,
     bits \in SUBSET BitCandidates, kind \in {0, 1}}
  \cup {MkBlob(tag, len, {}, kind) :
     tag \in Tags \ {internalType, leafType}, len \in Lengths, kind \in {0, 1}}

IdleParse ==
  /\ serializedNode = <<>>
  /\ capacity = 0
  /\ depth = 0
  /\ badPoints = {}
  /\ parseOp = "none"
  /\ parseRes = ResNone

InitParse ==
  /\ serializedNode \in Blobs
  /\ capacity \in {Len(serializedNode), Len(serializedNode) + CapSlack}
  /\ depth \in Depths
  /\ badPoints \in SUBSET PointFields
  /\ parseOp = "none"
  /\ parseRes = ResNone

ParseNodeCall ==
  /\ parseOp = "none"
  /\ parseOp' = "ParseNode"
  /\ parseRes' = ParseNode(serializedNode, capacity, depth, badPoints)
  /\ UNCHANGED <<serializedNode, capacity, depth, badPoints, nonParseVars>>

(* CreateInternalNode called directly, on the pieces of an internal blob   *)
(* split at the offset the caller chose                                    *)
CreateInternalNodeCall ==
  /\ parseOp = "none"
  /\ Len(serializedNode) >= internalCommitmentOffset + 1
  /\ At(serializedNode, 0) = internalType
  /\ parseOp' = "CreateInternalNode"
  /\ \E split \in {internalCommitmentOffset - 1, internalCommitmentOffset,
                    internalCommitmentOffset + 1} :
       parseRes' = CreateInternalNode(
                     Slice(serializedNode, internalBitlistOffset, split),
                     Slice(serializedNode, split, Len(serializedNode)),
                     depth, badPoints)
  /\ UNCHANGED <<serializedNode, capacity, depth, badPoints, nonParseVars>>

NextParse == ParseNodeCall \/ CreateInternalNodeCall

---------------------------------------------------------------------------
(* The scalar field and the group G1.                                      *)
(*                                                                         *)
(* The BLS12-381 scalar field (a 255-bit prime, line 121) is beyond TLC's  *)
(* integers. The model computes in the prime field of 3*2^12+1 = 12289     *)
(* elements, which has the 256th roots of unity a width-8 configuration    *)
(* needs, and takes G1, a cyclic group whose order is the field's modulus, *)
(* as the integers modulo that prime with generator 1.                     *)
modulus == 3 * 2^12 + 1

AddModFr(a, b) == (a + b) % modulus
SubModFr(a, b) == (a + modulus - b) % modulus
MulModFr(a, b) == (a * b) % modulus

RECURSIVE PowFr(_, _)
PowFr(a, e) ==
  IF e = 0 THEN 1
  ELSE IF e % 2 = 0 THEN PowFr(MulModFr(a, a), e \div 2)
  ELSE MulModFr(a, PowFr(MulModFr(a, a), e \div 2))

InvModFr(a) == PowFr(a, modulus - 2)
DivModFr(a, b) == MulModFr(a, InvModFr(b))
EqualZero(a) == a = 0

ZERO_G1 == 0
GenG1 == 1
AddG1(a, b) == (a + b) % modulus
MulG1(point, scalar) == (point * scalar) % modulus

(* bls.Scale2RootOfUnity[width]: a primitive 2^width-th root of unity *)
Scale2RootOfUnity(width) ==
  CHOOSE x \in 2..(modulus - 1) :
    /\ PowFr(x, 2^width) = 1
    /\ PowFr(x, 2^(width - 1)) # 1
    /\ \A y \in 2..(x - 1) : ~(PowFr(y, 2^width) = 1 /\ PowFr(y, 2^(width - 1)) # 1)

(* the sum of the entries lo..hi of a sequence in G1 / in the field *)
RECURSIVE SumRange(_, _, _)
SumRange(xs, lo, hi) ==
  IF lo > hi THEN 0
  ELSE IF lo = hi THEN xs[lo]
  ELSE (SumRange(xs, lo, (lo + hi) \div 2) + SumRange(xs, (lo + hi) \div 2 + 1, hi)) % modulus

(* bls.LinCombG1(points, scalars): the multi-scalar multiplication *)
LinCombG1(points, scalars) ==
  SumRange([i \in 1..Len(points) |-> MulG1(points[i], scalars[i])], 1, Len(points))

(* A loop  tmp = 1; for i < n { out[i] = tmp; tmp *= base }  (lines 76-87, *)
(* 114-118), run sixteen iterations at a time.                             *)
RECURSIVE extendPowers(_, _, _)
extendPowers(acc, base, k) ==
  IF k = 0 THEN acc
  ELSE extendPowers(Append(acc, IF acc = <<>> THEN 1 ELSE MulModFr(acc[Len(acc)], base)),
                    base, k - 1)

RECURSIVE powerTable(_, _, _)
powerTable(acc, base, n) ==
  IF Len(acc) >= n THEN acc
  ELSE LET k == IF n - Len(acc) < 16 THEN n - Len(acc) ELSE 16
           next == extendPowers(acc, base, k)
       IN  IF Computed(next) THEN powerTable(next, base, n) ELSE next

---------------------------------------------------------------------------
(* The commitment configuration.                                           *)

(* line 73: the hard-coded secret, reduced modulo the model's modulus *)
secretScalar == 8884
(* line 37 *)
multiExpThreshold8 == 25

(* The configuration the algebra is run on is GetTreeConfig(8). Its tables *)
(* are definitions of their own, so that each is computed once.            *)
AlgWidth == 8
AlgNodeWidth == 2^AlgWidth

(* lines 72-87: s1Out[i] = s^i * G1 *)
secretPowers == powerTable(<<>>, secretScalar, AlgNodeWidth)
s1Out == [i \in 1..AlgNodeWidth |-> MulG1(GenG1, secretPowers[i])]

(* lines 113-118: tc.omegaIs[i] = w^i, w = bls.Scale2RootOfUnity[width] *)
rootOfUnity == Scale2RootOfUnity(AlgWidth)
omegaIs == powerTable(<<>>, rootOfUnity, AlgNodeWidth)

(* lines 89-90: lg1 = FFTG1(s1Out, inverse): the inverse discrete Fourier  *)
(* transform of s1Out over the 2^width-th roots of unity                   *)
fftInvLen == InvModFr(AlgNodeWidth)
FFTG1Inverse(vals, j) ==
  MulG1(SumRange([i \in 1..AlgNodeWidth |->
                    MulG1(vals[i],
                          omegaIs[((AlgNodeWidth - (((i - 1) * (j - 1)) % AlgNodeWidth))
                                   % AlgNodeWidth) + 1])],
                 1, AlgNodeWidth),
        fftInvLen)
lg1 == [j \in 1..AlgNodeWidth |-> FFTG1Inverse(s1Out, j)]

(* lines 126-132: tc.inverses[0] = 0, tc.inverses[i] = 1 / (1 - w^i) *)
inverses ==
  [i \in 1..AlgNodeWidth |-> IF i = 1 THEN 0 ELSE DivModFr(1, SubModFr(1, omegaIs[i]))]

(* lines 134-135 *)
nodeWidthInversed == InvModFr(AlgNodeWidth)

(* func initTreeConfig(width int, lg1 []bls.G1Point) *TreeConfig, at width 8 *)
(* (lines 106-108 replace the threshold at width 10 only)                  *)
initTreeConfig ==
  [width |-> AlgWidth,
   nodeWidth |-> AlgNodeWidth,
   lg1 |-> lg1,
   multiExpThreshold |-> multiExpThreshold8,
   omegaIs |-> omegaIs,
   inverses |-> inverses,
   modulus |-> modulus,
   nodeWidthInversed |-> nodeWidthInversed]

treeConfig == initTreeConfig

---------------------------------------------------------------------------
(* The polynomial algebra.                                                 *)

AlgResNone == [g |-> 0, q |-> <<>>, usedInvZero |-> FALSE]

(* line 147: omegaIdx := (len(tc.omegaIs) - i) % len(tc.omegaIs) *)
omegaIdxForward(n, i) == i % n
omegaIdxOf(n, i) == (n - i) % n

(* lines 146-161: the body of the loop for i; st carries q and, as a      *)
(* history, whether tc.inverses[0] has been read                           *)
innerQuotientStep(tc, f, idx, i, st) ==
  IF i = idx THEN st
  ELSE LET y == At(f, idx)
           omegaIdx == omegaIdxOf(Len(tc.omegaIs), i)
           invIdx == (idx + tc.nodeWidth - i) % tc.nodeWidth
           iMinIdx == (i - idx + tc.nodeWidth) % tc.nodeWidth
           qi == MulModFr(MulModFr(SubModFr(At(f, i), y), At(tc.omegaIs, omegaIdx)),
                          At(tc.inverses, invIdx))
           tmp == SubModFr(0, MulModFr(At(tc.omegaIs, iMinIdx), qi))
       IN  [g |-> 0,
            q |-> [st.q EXCEPT ![i + 1] = qi, ![idx + 1] = AddModFr(@, tmp)],
            usedInvZero |-> st.usedInvZero \/ invIdx = 0]

(* lines 145-162: for i := 0; i < tc.nodeWidth; i++, sixteen at a time *)
RECURSIVE innerQuotientsRun(_, _, _, _, _, _)
innerQuotientsRun(tc, f, idx, i, stop, st) ==
  IF i >= stop THEN st
  ELSE innerQuotientsRun(tc, f, idx, i + 1, stop, innerQuotientStep(tc, f, idx, i, st))

RECURSIVE innerQuotientsLoop(_, _, _, _, _)
innerQuotientsLoop(tc, f, idx, i, st) ==
  IF i >= tc.nodeWidth THEN st
  ELSE LET stop == IF i + 16 < tc.nodeWidth THEN i + 16 ELSE tc.nodeWidth
           next == innerQuotientsRun(tc, f, idx, i, stop, st)
       IN  IF Computed(next) THEN innerQuotientsLoop(tc, f, idx, stop, next) ELSE next

(* func (tc *TreeConfig) innerQuotients(f []bls.Fr, index int) []bls.Fr *)
innerQuotients(tc, f, idx) ==
  innerQuotientsLoop(tc, f, idx, 0,
                     [g |-> 0, q |-> [k \in 1..tc.nodeWidth |-> 0], usedInvZero |-> FALSE])

(* lines 189-194: one term of the naive sum *)
naiveTermOverwrite(comm, point, scalar) ==
  IF ~EqualZero(scalar) THEN MulG1(point, scalar) ELSE comm
naiveTerm(comm, point, scalar) ==
  IF ~EqualZero(scalar) THEN AddG1(comm, MulG1(point, scalar)) ELSE comm

(* lines 188-195: for i := range poly, sixteen at a time *)
RECURSIVE naiveRun(_, _, _, _, _)
naiveRun(tc, f, i, stop, comm) ==
  IF i >= stop THEN comm
  ELSE naiveRun(tc, f, i + 1, stop, naiveTerm(comm, At(tc.lg1, i), At(f, i)))

RECURSIVE naiveLoop(_, _, _, _)
naiveLoop(tc, f, i, comm) ==
  IF i >= Len(f) THEN comm
  ELSE LET stop == IF i + 16 < Len(f) THEN i + 16 ELSE Len(f)
           next == naiveRun(tc, f, i, stop, comm)
       IN  IF Computed(next) THEN naiveLoop(tc, f, stop, next) ELSE next

(* func (tc *TreeConfig) evalPoly(poly []bls.Fr, emptyChildren int) *bls.G1Point *)
evalPoly(tc, f, empty) ==
  IF tc.nodeWidth - empty >= tc.multiExpThreshold
    THEN LinCombG1(tc.lg1, f)
    ELSE naiveLoop(tc, f, 0, ZERO_G1)

(* The evaluation vectors: a support (which entries are non-zero) and a    *)
(* pattern for the non-zero values.                                        *)
FirstN(k) == 0..(k - 1)
Multiples(m) == {i \in 0..(AlgNodeWidth - 1) : i % m = 0}
Supports ==
  {FirstN(k) : k \in {0, 1, 2, multiExpThreshold8 - 1, multiExpThreshold8, AlgNodeWidth}}
    \cup {Multiples(11), Multiples(10), {AlgNodeWidth - 1}, {0, AlgNodeWidth - 1}}
ValueKinds == {0, 1, 2}
PolyValue(kind, i) ==
  IF kind = 0 THEN 1
  ELSE IF kind = 1 THEN 1 + ((i * 37 + 5) % 1000)
  ELSE modulus - 1 - i
MkPoly(support, kind) ==
  [i \in 1..(AlgNodeWidth) |-> IF (i - 1) \in support THEN PolyValue(kind, i - 1) ELSE 0]
Polys == {MkPoly(sup, kind) : sup \in Supports, kind \in ValueKinds}
EmptyCounts ==
  {0, 1, AlgNodeWidth - multiExpThreshold8 - 1, AlgNodeWidth - multiExpThreshold8,
   AlgNodeWidth - multiExpThreshold8 + 1, AlgNodeWidth - 1, AlgNodeWidth}
Indices == {0, 1, 2, 11, 127, 128, AlgNodeWidth - 2, AlgNodeWidth - 1}

IdleAlg ==
  /\ poly = <<>>
  /\ emptyChildren = 0
  /\ index = 0
  /\ algOp = "none"
  /\ algRes = AlgResNone

InitAlg ==
  /\ poly \in Polys
  /\ emptyChildren = 0
  /\ index = 0
  /\ algOp = "none"
  /\ algRes = AlgResNone

EvalPolyCall ==
  /\ algOp = "none"
  /\ \E e \in EmptyCounts :
       /\ emptyChildren' = e
       /\ algRes' = [AlgResNone EXCEPT !.g = evalPoly(treeConfig, poly, e)]
  /\ algOp' = "evalPoly"
  /\ UNCHANGED <<poly, index, nonAlgVars>>

InnerQuotientsCall ==
  /\ algOp = "none"
  /\ \E idx \in Indices :
       /\ index' = idx
       /\ algRes' = [innerQuotients(treeConfig, poly, idx) EXCEPT !.g = 0]
  /\ algOp' = "innerQuotients"
  /\ UNCHANGED <<poly, emptyChildren, nonAlgVars>>

NextAlg == EvalPolyCall \/ InnerQuotientsCall

---------------------------------------------------------------------------
(* The specifications: the cache under concurrent callers, and one per    *)
(* group of pure functions, run on inputs drawn by its initial predicate.  *)
Init == InitCache /\ IdleKeys /\ IdleParse /\ IdleAlg
Next == NextCache
Spec == Init /\ [][Next]_vars

KeysInit == IdleCache /\ InitKeys /\ IdleParse /\ IdleAlg
SpecKeys == KeysInit /\ [][NextKeys]_vars

ParseInit == IdleCache /\ IdleKeys /\ InitParse /\ IdleAlg
SpecParse == ParseInit /\ [][NextParse]_vars

AlgInit == IdleCache /\ IdleKeys /\ IdleParse /\ InitAlg
SpecAlg == AlgInit /\ [][NextAlg]_vars

---------------------------------------------------------------------------
(* C1: for any interleaving of GetTreeConfig calls, the configuration of   *)
(* each width is constructed at most once, every call for the same width   *)
(* that returns gives the same instance, and a cache entry, once inserted, *)
(* is never replaced or removed.                                           *)
C1_SameInstance ==
  /\ \A w \in Widths : built[w] <= 1
  /\ \A p \in returned, q \in returned :
       (p[1] = q[1] /\ p[2].kind = "ok" /\ q[2].kind = "ok") => p[2].id = q[2].id
  /\ \A p \in returned :
       (p[2].kind = "ok") => configs[p[1]].id = p[2].id

C1_EntryStable ==
  \A w \in Widths : configs[w] # NoConfig => configs'[w] = configs[w]

C1_ConstructedOnce == [](C1_SameInstance) /\ [][C1_EntryStable]_vars

(* two widths are cached, and one of them has also been served from the cache *)
C1_Witness ==
  \E w \in Widths, w2 \in Widths :
    /\ w # w2
    /\ built[w] = 1 /\ hits[w] >= 1
    /\ configs[w2] # NoConfig

(* C3: GetTreeConfig with a width other than 8 or 10 panics: it returns no *)
(* configuration and inserts no cache entry for that width.                *)
C3_UnsupportedWidthPanics ==
  \A w \in Widths \ SupportedWidths :
    /\ configs[w] = NoConfig
    /\ \A p \in returned : p[1] = w => p[2].kind = "panic"

(* C10: a panic inside the construction releases the mutex and leaves the  *)
(* cache as it was; the mutex is never left held by a goroutine that is    *)
(* outside GetTreeConfig, so later callers are not blocked.                *)
C10_PanicStep ==
  \A t \in Threads :
    (pc[t] = "build" /\ pc'[t] = "idle")
      => /\ configs' = configs
         /\ configs'[arg[t]] = NoConfig
         /\ configMtx' = NoThread

C10_HolderInside ==
  configMtx # NoThread => pc[configMtx] \in {"lookup", "build", "insert"}

C10_PanicReleasesLock == [](C10_HolderInside) /\ [][C10_PanicStep]_vars

(* a call panicked, its width has no entry, and a later caller holds the mutex *)
C10_Witness ==
  \E w \in Widths, t \in Threads :
    /\ <<w, Panicked>> \in returned
    /\ configs[w] = NoConfig
    /\ configMtx = t /\ pc[t] = "lookup"

---------------------------------------------------------------------------
(* bit j of a key, counting most-significant-first from byte 0; bits past  *)
(* the end of the key are 0                                                *)
KeyBit(key, j) ==
  IF j \div 8 >= Len(key) THEN 0
  ELSE (At(key, j \div 8) \div (2^(7 - (j % 8)))) % 2

RECURSIVE BitsValue(_, _, _)
BitsValue(key, from, n) ==
  IF n = 0 THEN 0
  ELSE 2 * BitsValue(key, from, n - 1) + KeyBit(key, from + n - 1)

(* C4: at width 10, for every level offset (a multiple of 10 in 0..250),   *)
(* offset2key returns the integer whose 10 bits, most significant first,   *)
(* are the key's bits offset..offset+9, bits past the end of the key being *)
(* 0; the result is below 1024.                                            *)
C4_TenBitIndex ==
  (keyOp = "offset2key" /\ tcWidth = 10) =>
    /\ offset % 10 = 0 /\ offset >= 0 /\ offset <= 250
    /\ keyRes.kind = "uint"
    /\ keyRes.n = BitsValue(key1, offset, 10)
    /\ keyRes.n < 1024

(* offset 30: the low 2 bits of byte 3 (0xD2) followed by byte 4 (0x60)    *)
C4_Witness ==
  /\ keyOp = "offset2key" /\ tcWidth = 10 /\ offset = 30
  /\ At(key1, 3) = 210 /\ At(key1, 4) = 96
  /\ keyRes.n = 2 * 256 + 96

(* C5: equalPaths is reflexive and symmetric; at width 8 the result is the *)
(* equality of the first 31 bytes; at width 10 it is true exactly when the *)
(* first 31 bytes are equal and the two most-significant bits of byte 31   *)
(* are equal.                                                              *)
C5_EqualPaths ==
  (keyOp = "equalPaths" /\ tcWidth \in {8, 10}) =>
    /\ equalPaths(tcWidth, key1, key1) = KeyResBool(TRUE)
    /\ equalPaths(tcWidth, key2, key1) = keyRes
    /\ tcWidth = 8 => keyRes = KeyResBool(Prefix(key1, 31) = Prefix(key2, 31))
    /\ tcWidth = 10 =>
         keyRes = KeyResBool(/\ Prefix(key1, 31) = Prefix(key2, 31)
                             /\ At(key1, 31) \div 64 = At(key2, 31) \div 64)

---------------------------------------------------------------------------
(* C2: for every byte sequence and depth, ParseNode returns a node or an   *)
(* error value: it never panics and never reads past the end of the input. *)
C2_ParseNodeNeverPanics ==
  parseOp = "ParseNode" =>
    /\ parseRes.kind \in {"node", "error"}
    /\ ~parseRes.overread

(* bit i of the bitlist that starts at byte `at` of the blob, most         *)
(* significant bit first within each byte                                  *)
InputBit(s, at, i) == (At(s, at + (i \div 8)) \div (2^(7 - (i % 8)))) % 2 = 1
InputSetBits(s, at) == {i \in 0..(NodeWidth - 1) : InputBit(s, at, i)}

(* the bytes of the value of slot i: the values follow leafChildrenOffset  *)
(* consecutively, one per set bit, in bit order                            *)
ValueRank(setBits, i) == Cardinality({j \in setBits : j < i})
ValueEnd(setBits, i) == leafChildrenOffset + (ValueRank(setBits, i) + 1) * LeafValueSize
Unsatisfied(s, setBits) == {i \in setBits : ValueEnd(setBits, i) > Len(s)}
Least(S) == CHOOSE x \in S : \A y \in S : x <= y

(* C6: decoding a generic leaf whose stem, bitlist and commitments are     *)
(* present and valid gives the error "not enough data to read value at     *)
(* index i", i being the first set bit whose value does not fit in the     *)
(* blob; if every set bit has a full value, the node's slot i holds a      *)
(* value exactly when bit i is set, the values being taken consecutively   *)
(* in bit order.                                                           *)
C6_LeafValues ==
  (/\ parseOp = "ParseNode"
   /\ Len(serializedNode) >= leafChildrenOffset
   /\ At(serializedNode, 0) = leafType
   /\ badPoints = {}) =>
    LET setBits == InputSetBits(serializedNode, leafBitlistOffset)
        unsat == Unsatisfied(serializedNode, setBits)
    IN  IF unsat # {}
          THEN /\ parseRes.kind = "error"
               /\ parseRes.err = "not enough data to read value at index"
               /\ parseRes.index = Least(unsat)
          ELSE /\ parseRes.kind = "node"
               /\ parseRes.node.type = "leaf"
               /\ Len(parseRes.node.values) = NodeWidth
               /\ \A i \in 0..(NodeWidth - 1) :
                    IF i \in setBits
                      THEN At(parseRes.node.values, i) =
                             SubSeq(serializedNode,
                                    ValueEnd(setBits, i) - LeafValueSize + 1,
                                    ValueEnd(setBits, i))
                      ELSE At(parseRes.node.values, i) = <<>>

(* bits 0, 7 and 8 are set, the blob holds one full value and one byte     *)
(* less than the second: the error names index 7                           *)
C6_Witness ==
  /\ parseOp = "ParseNode"
  /\ Len(serializedNode) = leafChildrenOffset + 2 * LeafValueSize - 1
  /\ At(serializedNode, 0) = leafType
  /\ InputSetBits(serializedNode, leafBitlistOffset) = {0, 7, 8}
  /\ parseRes.kind = "error"
  /\ parseRes.index = 7

(* C7: an internal node decoded from a bitlist of NodeWidth/8 bytes and a  *)
(* valid commitment has NodeWidth children, child k being a HashedNode if  *)
(* bit k of the bitlist (most significant bit first) is set and Empty      *)
(* otherwise.                                                              *)
C7_InternalChildren ==
  (/\ parseOp \in {"ParseNode", "CreateInternalNode"}
   /\ parseRes.kind = "node"
   /\ parseRes.node.type = "internal") =>
    /\ Len(parseRes.node.children) = NodeWidth
    /\ \A k \in 0..(NodeWidth - 1) :
         At(parseRes.node.children, k) =
           IF InputBit(serializedNode, internalBitlistOffset, k) THEN "HashedNode"
           ELSE "Empty"

(* bits 7 and 255 are set: children 7 and 255 are placeholders, child 0 is Empty *)
C7_Witness ==
  /\ parseOp = "ParseNode"
  /\ badPoints = {}
  /\ parseRes.kind = "node"
  /\ parseRes.node.type = "internal"
  /\ InputSetBits(serializedNode, internalBitlistOffset) = {7, 255}
  /\ At(parseRes.node.children, 7) = "HashedNode"
  /\ At(parseRes.node.children, 255) = "HashedNode"
  /\ At(parseRes.node.children, 0) = "Empty"

---------------------------------------------------------------------------
(* C8: for a fixed configuration and evaluation vector, evalPoly returns   *)
(* the sum over i of lg1[i] * poly[i] for every value of emptyChildren:    *)
(* the multi-scalar multiplication taken when nodeWidth - emptyChildren    *)
(* reaches multiExpThreshold and the naive sum that skips the zero entries *)
(* agree.                                                                  *)
C8_EvalPolyPathsAgree ==
  algOp = "evalPoly" =>
    /\ algRes.g =
         SumRange([i \in 1..AlgNodeWidth |-> (treeConfig.lg1[i] * poly[i]) % modulus],
                  1, AlgNodeWidth)
    /\ \A e \in EmptyCounts : evalPoly(treeConfig, poly, e) = algRes.g

(* 24 non-zero entries (threshold - 1) and emptyChildren saying so: the    *)
(* naive path has produced a non-zero commitment                           *)
C8_Witness ==
  /\ algOp = "evalPoly"
  /\ emptyChildren = AlgNodeWidth - (multiExpThreshold8 - 1)
  /\ treeConfig.nodeWidth - emptyChildren < treeConfig.multiExpThreshold
  /\ poly = MkPoly(FirstN(multiExpThreshold8 - 1), 1)
  /\ algRes.g # 0

(* C9: innerQuotients(f, index) returns q with, for every i # index,       *)
(* q[i] * (w^i - w^index) = f[i] - f[index], that is                       *)
(* q[i] = (f[i] - f[index]) * omegaIs[(n - i) mod n] * inverses[(index - i) mod n], *)
(* and q[index] = - sum over i # index of w^((i - index) mod n) * q[i];    *)
(* inverses[0], the zero placeholder, is never read as a factor.           *)
C9_InnerQuotients ==
  algOp = "innerQuotients" =>
    LET n == AlgNodeWidth
        q == algRes.q
        others == (0..(n - 1)) \ {index}
        w(i) == PowFr(rootOfUnity, i)
    IN  /\ Len(q) = n
        /\ \A i \in others :
             /\ MulModFr(At(q, i), SubModFr(w(i), w(index)))
                  = SubModFr(At(poly, i), At(poly, index))
             /\ At(q, i) = MulModFr(MulModFr(SubModFr(At(poly, i), At(poly, index)),
                                             At(treeConfig.omegaIs, (n - i) % n)),
                                    At(treeConfig.inverses, (index + n - i) % n))
             /\ MulModFr(At(treeConfig.omegaIs, (n - i) % n), w(i)) = 1
             /\ (index + n - i) % n # 0
        /\ At(q, index) =
             SubModFr(0, SumRange([k \in 1..n |->
                                     IF k - 1 = index THEN 0
                                     ELSE MulModFr(w((k - 1 - index + n) % n), q[k])],
                                  1, n))
        /\ At(treeConfig.inverses, 0) = 0
        /\ ~algRes.usedInvZero

(* a vector with some zero and some non-zero entries, opened at index 11:  *)
(* both the quotient at the index and a quotient elsewhere are non-zero    *)
C9_Witness ==
  /\ algOp = "innerQuotients"
  /\ index = 11
  /\ poly = MkPoly(Multiples(10), 1)
  /\ At(algRes.q, index) # 0
  /\ \E i \in 0..(AlgNodeWidth - 1) : i # index /\ At(algRes.q, i) # 0

====
